---- MODULE Spec2Model ----
(***************************************************************************)
(* Pulse: the metrics acquisition layer.                                   *)
(*                                                                         *)
(*   direct_os.py   the Linux /proc readers and the CPU delta sampler      *)
(*   core.py        the bridge between the Rust accelerator and a fallback *)
(*   panels/*.py    the panels' own delta samplers (network, disk)         *)
(*                                                                         *)
(* The samplers share no state: the CPU baseline is a pair of module       *)
(* globals of direct_os, the disk and network baselines are fields of one  *)
(* panel object each, the bridge only reads HAS_RUST.  A behaviour         *)
(* therefore exercises one component, named by `component`, which Init     *)
(* chooses and no action changes.                                          *)
(*                                                                         *)
(* Time is counted in tenths of a second (0.1 s), CPU counters in ticks.   *)
(* Floats are modelled as exact fractions [n, d] with d > 0.               *)
(***************************************************************************)
EXTENDS Integers, Sequences, FiniteSets, TLC

VARIABLES
    component,        \* which component this behaviour exercises
    last_cpu_times,   \* direct_os._last_cpu_times: None or the stored snapshot
    last_cpu_check,   \* direct_os._last_cpu_check: time of the stored snapshot
    cpu_result,       \* what the last call of get_cpu_percents returned
    cpu_path,         \* which exit that call took: fresh, stale, delta, raised
    cpu_op,           \* who made that call: init() or a consumer (get)
    cpu_read,         \* what that call read: the snapshot and the time, None if reading raised
    last_per_disk_io, \* DiskIOPanel.last_per_disk_io: device -> (io, time)
    disk_rows,        \* the READ/s and WRITE/s cells of the table, per device
    disk_seen,        \* per device, the branch the last update took for it
    disk_header,      \* the header line: scanning, or the error text
    HAS_RUST,         \* core.HAS_RUST: did `import pulse_core` succeed
    bridge_op,        \* the bridge function called last
    bridge_accel,     \* what the accelerator did in that call, if attempted
    accel_calls,      \* how often that call invoked the accelerator
    fallback_calls,   \* how often that call invoked fallback_func
    bridge_out,       \* what that call handed to its caller
    bridge_request,   \* get_process_list: the /proc listing, sort_by and limit of that call
    bridge_list,      \* get_process_list: the list fallback_func returned to the caller
    proc_call,        \* the get_process_list call being left, or None
    proc_result,      \* the list that call returns, None if it raises
    proc_ticks_seen,  \* per PID, the utime + stime the last enumeration read
    last_procs,       \* ProcessPanel.last_procs computed from the list in hand, None before
    last_net,         \* NetworkPanel.last_net: None or the counters read last
    up_history,       \* NetworkPanel.up_history
    down_history,     \* NetworkPanel.down_history
    net_rates,        \* the UP and DOWN figures of the panel's text, if any
    net_elapsed,      \* tenths of a second between the last two network samples
    net_header,       \* the UP and DOWN figures of the immersive header, if shown
    last_io,          \* DiskIOPanel.last_io: None or the counters read last
    read_history,     \* DiskIOPanel.read_history
    write_history,    \* DiskIOPanel.write_history
    current_read_lat, \* DiskIOPanel.current_read_lat
    current_write_lat,\* DiskIOPanel.current_write_lat
    disk_rates,       \* the R and W figures of the panel's text, if any
    disk_elapsed,     \* tenths of a second between the last two disk samples
    cpu_consumer,     \* which consumer made the last call of get_cpu_percents
    own_baseline,     \* per consumer, the snapshot and time of its own last call
    mem_call,         \* the get_memory_info call being left, or None
    mem_result,       \* the dict that call returns
    stats_call,       \* the get_network_stats call being left, or None
    stats_result,     \* the dict that call returns
    DEFAULT_CONFIG,   \* config.DEFAULT_CONFIG, the module's dict object
    config_file,      \* config.toml: None if missing, or its lines
    app_config,       \* the dict load_config returned last, as its caller holds it
    last_saved,       \* the dict the last save_config that wrote the file was given
    cfg_op,           \* the operation on the configuration made last
    cfg_outcome,      \* how it ended: returned, raised, saved, ignored
    frozen,           \* PulseApp.frozen
    focused_panel,    \* MainViewPanel.focused_panel: None or a panel's id
    app_event,        \* the event the app handled last
    updated,          \* the panels whose update_data that handler called
    sampling_rate,    \* per panel, Panel.sampling_rate in tenths of a second
    source_panel,     \* ImmersiveScreen.source_panel, None while no screen is open
    static_view,      \* whether the screen was composed with #transcendence-content
    refresh_timers,   \* the intervals of the screen's timers that are running
    rate_at_mount,    \* the panel's sampling_rate when the screen was mounted
    toggles,          \* how often precision was toggled since the screen was mounted
    view_refresh      \* what the last refresh_view drove

cpuVars == <<last_cpu_times, last_cpu_check, cpu_result, cpu_path, cpu_op, cpu_read>>

perDiskVars == <<last_per_disk_io, disk_rows, disk_seen, disk_header>>

bridgeVars == <<HAS_RUST, bridge_op, bridge_accel, accel_calls, fallback_calls, bridge_out,
               bridge_request, bridge_list>>

procVars == <<proc_call, proc_result, proc_ticks_seen, last_procs>>

netVars == <<last_net, up_history, down_history, net_rates, net_elapsed, net_header>>

diskVars == <<last_io, read_history, write_history, current_read_lat,
              current_write_lat, disk_rates, disk_elapsed>>

consumerVars == <<cpu_consumer, own_baseline>>

memVars == <<mem_call, mem_result>>

statsVars == <<stats_call, stats_result>>

configVars == <<DEFAULT_CONFIG, config_file, app_config, last_saved, cfg_op, cfg_outcome>>

appVars == <<frozen, focused_panel, app_event, updated>>

immVars == <<sampling_rate, source_panel, static_view, refresh_timers, rate_at_mount,
            toggles, view_refresh>>

vars == <<component, cpuVars, perDiskVars, bridgeVars, procVars, netVars, diskVars,
          consumerVars, memVars, statsVars, configVars, appVars, immVars>>

(***************************************************************************)
(* Bounds of the model.                                                    *)
(***************************************************************************)
MaxNow == 2           \* time.time() ranges over 0..MaxNow tenths of a second
MaxDiskNow == 1       \* the same for the clock the disk table reads
MaxPid == 2           \* the PIDs under /proc range over 1..MaxPid
MaxHistory == 1       \* the history deques' maxlen (80 in the panels)
MaxMemLines == 2      \* /proc/meminfo has up to MaxMemLines lines
MaxNetLines == 2      \* /proc/net/dev has up to MaxNetLines lines
MaxToggles == 3       \* precision is toggled up to MaxToggles times per screen

CoreCounts == {1, 2}  \* the number of cpuN lines a read of /proc/stat finds
Ticks == 0..2         \* the values of a core's busy and total counters

\* Python's Optional: None is the empty sequence, a value v is <<v>>.
None == << >>

Some(v) == <<v>>

ValueOf(opt) == opt[1]

Min(a, b) == IF a < b THEN a ELSE b

(***************************************************************************)
(* Float arithmetic, exact.                                                *)
(***************************************************************************)
Abs(n) == IF n < 0 THEN -n ELSE n

RECURSIVE GCD(_, _)
GCD(a, b) == IF b = 0 THEN a ELSE GCD(b, a % b)

\* The float n / d (d > 0): equal quotients are equal floats.
Rat(n, d) == LET g == GCD(Abs(n), d) IN [n |-> n \div g, d |-> d \div g]

Zero == Rat(0, 1)

Hundred == Rat(100, 1)

RatLess(a, b) == a.n * b.d < b.n * a.d

RatLeq(a, b) == a.n * b.d <= b.n * a.d

\* Python's min(a, b): b when b < a, otherwise a.
PyMin(a, b) == IF RatLess(b, a) THEN b ELSE a

(***************************************************************************)
(* direct_os.get_cpu_percents (Linux).                                     *)
(***************************************************************************)
\* One entry of read_cpu_times(): busy = user + nice + system and
\* total = busy + idle + iowait, all fields being non-negative.
CpuTimes == { t \in [busy : Ticks, total : Ticks] : t.busy <= t.total }

\* What read_cpu_times() can return: one entry per cpuN line.
Snapshots == UNION { [1..k -> CpuTimes] : k \in CoreCounts }

Times == 0..MaxNow

\* `now - _last_cpu_check > 0.1`
CpuGate == 1

StaleBaseline(check, now) == now - check > CpuGate

NoBaseline(last) == last = None

\* `[0.0] * len(current)`
ZeroList(current) == [i \in 1..Len(current) |-> Zero]

\* CorePercent with the guard written `!= 0`.
CorePercentNonZeroGuard(prev, curr) ==
    LET delta_busy == curr.busy - prev.busy
        delta_total == curr.total - prev.total
    IN  IF delta_total > 0
        THEN PyMin(Hundred, Rat(delta_busy * 100, delta_total))
        ELSE IF delta_total < 0
        THEN PyMin(Hundred, Rat(-(delta_busy * 100), -delta_total))
        ELSE Zero

\* The body of the loop over zip(_last_cpu_times, current).
CorePercent(prev, curr) ==
    LET delta_busy == curr.busy - prev.busy
        delta_total == curr.total - prev.total
    IN  IF delta_total > 0
        THEN PyMin(Hundred, Rat(delta_busy * 100, delta_total))
        ELSE Zero

\* zip stops at the shorter of the two lists.
DeltaList(last, current) ==
    [i \in 1..Min(Len(last), Len(current)) |-> CorePercent(last[i], current[i])]

\* CpuCall with the baseline stored on the first-sample branch only.
CpuCallBaselineKeptOnDelta(op, current, now) ==
    /\ IF NoBaseline(last_cpu_times) \/ StaleBaseline(last_cpu_check, now)
       THEN /\ cpu_result' = Some(ZeroList(current))
            /\ cpu_path' = IF NoBaseline(last_cpu_times) THEN "fresh" ELSE "stale"
            /\ last_cpu_times' = Some(current)
            /\ last_cpu_check' = now
       ELSE /\ cpu_result' = Some(DeltaList(ValueOf(last_cpu_times), current))
            /\ cpu_path' = "delta"
            /\ UNCHANGED <<last_cpu_times, last_cpu_check>>
    /\ cpu_op' = op

\* get_cpu_percents() with /proc/stat read as `current` at time `now`.
CpuCall(op, current, now) ==
    /\ IF NoBaseline(last_cpu_times) \/ StaleBaseline(last_cpu_check, now)
       THEN /\ cpu_result' = Some(ZeroList(current))
            /\ cpu_path' = IF NoBaseline(last_cpu_times) THEN "fresh" ELSE "stale"
       ELSE /\ cpu_result' = Some(DeltaList(ValueOf(last_cpu_times), current))
            /\ cpu_path' = "delta"
    /\ last_cpu_times' = Some(current)
    /\ last_cpu_check' = now
    /\ cpu_op' = op

\* read_cpu_times() raises (open fails, a cpuN line is short or not numeric):
\* nothing catches it, the globals keep their values.
CpuCallRaises(op) ==
    /\ cpu_result' = None
    /\ cpu_path' = "raised"
    /\ cpu_op' = op
    /\ UNCHANGED <<last_cpu_times, last_cpu_check>>

GetCpuPercents ==
    /\ component = "cpu"
    /\ \E current \in Snapshots, now \in Times :
          /\ CpuCall("get", current, now)
          /\ cpu_read' = Some([current |-> current, now |-> now])
    /\ UNCHANGED <<component, immVars, appVars, configVars, statsVars, consumerVars, memVars, perDiskVars, bridgeVars, procVars, netVars, diskVars>>

GetCpuPercentsRaises ==
    /\ component = "cpu"
    /\ CpuCallRaises("get")
    /\ cpu_read' = None
    /\ UNCHANGED <<component, immVars, appVars, configVars, statsVars, consumerVars, memVars, perDiskVars, bridgeVars, procVars, netVars, diskVars>>

\* direct_os.init(): primes the baseline, the result is dropped.
DirectInit ==
    /\ component = "cpu"
    /\ \E current \in Snapshots, now \in Times :
          /\ CpuCall("init", current, now)
          /\ cpu_read' = Some([current |-> current, now |-> now])
    /\ UNCHANGED <<component, immVars, appVars, configVars, statsVars, consumerVars, memVars, perDiskVars, bridgeVars, procVars, netVars, diskVars>>

DirectInitRaises ==
    /\ component = "cpu"
    /\ CpuCallRaises("init")
    /\ cpu_read' = None
    /\ UNCHANGED <<component, immVars, appVars, configVars, statsVars, consumerVars, memVars, perDiskVars, bridgeVars, procVars, netVars, diskVars>>

(***************************************************************************)
(* The consumers of get_cpu_percents.  CPUPanel.update_data runs on the    *)
(* app's refresh tick, CPUPanel.update_transcendence on the immersive      *)
(* screen's timer; both call get_cpu_percents, which keeps its baseline in *)
(* the module globals.                                                     *)
(***************************************************************************)
Consumers == {"update_data", "update_transcendence"}

\* The reads of /proc/stat the consumers see: one core.
ConsumerSnapshots == [1..1 -> CpuTimes]

\* A consumer polls: the timer callback calls get_cpu_percents.
ConsumerPoll ==
    /\ component = "consumers"
    /\ \E c \in Consumers, current \in ConsumerSnapshots, now \in Times :
          /\ CpuCall("get", current, now)
          /\ cpu_read' = Some([current |-> current, now |-> now])
          /\ cpu_consumer' = c
          /\ own_baseline' = [own_baseline EXCEPT ![c] = Some([times |-> current, check |-> now])]
    /\ UNCHANGED <<component, immVars, appVars, configVars, statsVars, memVars, perDiskVars, bridgeVars, procVars, netVars, diskVars>>

ConsumersInit ==
    /\ cpu_consumer = "none"
    /\ own_baseline = [c \in Consumers |-> None]

(***************************************************************************)
(* DiskIOPanel.update_transcendence: the per-device rate table.            *)
(* Byte counters are counted in MiB, so that / (1024**2) is exact.         *)
(***************************************************************************)
Devices == {"sda", "sdb"}

DiskBytes == {0, 1}

IoCounters == [read_bytes : DiskBytes, write_bytes : DiskBytes]

\* psutil.disk_io_counters(perdisk=True): a dict over the devices present.
PerDiskReads == UNION { [D -> IoCounters] : D \in SUBSET Devices }

DiskTimes == 0..MaxDiskNow

\* Tenths of a second in one second: rates are per second.
TenthsPerSecond == 10

\* `(io.x_bytes - last_io.x_bytes) / (1024**2) / dt`
DiskRate(bytes, last_bytes, dt) == Rat((bytes - last_bytes) * TenthsPerSecond, dt)

\* DeviceRates with an unseen device read as zero counters at time 0.
DeviceRatesFromZero(last, io, now) ==
    LET known == IF last = None
                 THEN [io |-> [read_bytes |-> 0, write_bytes |-> 0], time |-> 0]
                 ELSE ValueOf(last)
    IN  IF now - known.time > 0
        THEN [read |-> DiskRate(io.read_bytes, known.io.read_bytes, now - known.time),
              write |-> DiskRate(io.write_bytes, known.io.write_bytes, now - known.time)]
        ELSE [read |-> Zero, write |-> Zero]

\* The rates of one device: 0.0 unless it was seen before and dt > 0.
DeviceRates(last, io, now) ==
    IF last # None /\ now - ValueOf(last).time > 0
    THEN [read |-> DiskRate(io.read_bytes, ValueOf(last).io.read_bytes,
                            now - ValueOf(last).time),
          write |-> DiskRate(io.write_bytes, ValueOf(last).io.write_bytes,
                             now - ValueOf(last).time)]
    ELSE [read |-> Zero, write |-> Zero]

DeviceBranch(last, now) ==
    IF last = None THEN "first"
    ELSE IF now - ValueOf(last).time > 0 THEN "rate" ELSE "nonpos"

\* self.last_per_disk_io[dev] = (io, now)
DeviceState(io, now) == Some([io |-> io, time |-> now])

UpdateTranscendence ==
    /\ component = "perdisk"
    /\ \E io_counters \in PerDiskReads, now \in DiskTimes :
          /\ last_per_disk_io' =
                [d \in Devices |->
                    IF d \in DOMAIN io_counters
                    THEN DeviceState(io_counters[d], now)
                    ELSE last_per_disk_io[d]]
          /\ disk_rows' =
                [d \in Devices |->
                    IF d \in DOMAIN io_counters
                    THEN Some(DeviceRates(last_per_disk_io[d], io_counters[d], now))
                    ELSE disk_rows[d]]
          /\ disk_seen' =
                [d \in Devices |->
                    IF d \in DOMAIN io_counters
                    THEN DeviceBranch(last_per_disk_io[d], now)
                    ELSE "absent"]
    /\ disk_header' = "scanning"
    /\ UNCHANGED <<component, immVars, appVars, configVars, statsVars, consumerVars, memVars, cpuVars, bridgeVars, procVars, netVars, diskVars>>

\* psutil raises: the except clause writes the error into the header.
UpdateTranscendenceRaises ==
    /\ component = "perdisk"
    /\ disk_header' = "error"
    /\ disk_seen' = [d \in Devices |-> "absent"]
    /\ UNCHANGED <<last_per_disk_io, disk_rows>>
    /\ UNCHANGED <<component, immVars, appVars, configVars, statsVars, consumerVars, memVars, cpuVars, bridgeVars, procVars, netVars, diskVars>>

PerDiskInit ==
    /\ last_per_disk_io = [d \in Devices |-> None]
    /\ disk_rows = [d \in Devices |-> None]
    /\ disk_seen = [d \in Devices |-> "absent"]
    /\ disk_header = ""

(***************************************************************************)
(* core.py: the bridge.  One call is described by what the accelerator     *)
(* does when invoked (accel) and what the i-th invocation of fallback_func *)
(* does (fb[i]); its outcome is the number of invocations of each and what *)
(* the caller receives.                                                    *)
(***************************************************************************)
AccelOutcomes == {"ok", "empty", "raise"}

FallbackOutcomes == [1..2 -> {"ok", "raise"}]

Outcome(a, f, out) == [accel_calls |-> a, fallback_calls |-> f, out |-> out]

\* `return fallback_func()` as the n-th invocation of the call.
ReturnFallback(a, n, fb) ==
    Outcome(a, n, IF fb[n] = "ok" THEN "fallback" ELSE "fallback_raised")

\* What the accelerator's return value is to the caller.
AccelValue(accel) == IF accel = "ok" THEN "accel" ELSE "accel_empty"

\* get_cpu_percents(fallback_func)
BridgeCpuPercents(has_rust, accel, fb) ==
    IF has_rust
    THEN IF accel = "raise" THEN ReturnFallback(1, 1, fb)
         ELSE IF accel = "ok" THEN Outcome(1, 0, "accel")
         \* an empty list is falsy: `or fallback_func()`, inside the try
         ELSE IF fb[1] = "ok" THEN Outcome(1, 1, "fallback")
         ELSE ReturnFallback(1, 2, fb)
    ELSE ReturnFallback(0, 1, fb)

\* BridgeDirect as it would be with a fault: no `if HAS_RUST`.
BridgeDirectNoGuard(has_rust, accel, fb) ==
    IF accel = "raise" THEN ReturnFallback(1, 1, fb)
    ELSE Outcome(1, 0, AccelValue(accel))

\* BridgeDirect as it would be with a fault: no try around the accelerator.
BridgeDirectNoTry(has_rust, accel, fb) ==
    IF has_rust
    THEN IF accel = "raise" THEN Outcome(1, 0, "accel_raised")
         ELSE Outcome(1, 0, AccelValue(accel))
    ELSE ReturnFallback(0, 1, fb)

\* get_memory_info, get_network_stats, get_disk_info (fallback_func): one body.
BridgeDirect(has_rust, accel, fb) ==
    IF has_rust
    THEN IF accel = "raise" THEN ReturnFallback(1, 1, fb)
         ELSE Outcome(1, 0, AccelValue(accel))
    ELSE ReturnFallback(0, 1, fb)

\* `if fallback_func: return fallback_func()`, then `return []`
FallbackOrEmpty(a, fb, has_fallback) ==
    IF has_fallback THEN ReturnFallback(a, 1, fb) ELSE Outcome(a, 0, "empty_list")

\* get_process_list(sort_by, limit, fallback_func)
BridgeProcessList(has_rust, accel, fb, has_fallback) ==
    IF has_rust
    THEN IF accel = "raise" THEN FallbackOrEmpty(1, fb, has_fallback)
         ELSE Outcome(1, 0, AccelValue(accel))
    ELSE FallbackOrEmpty(0, fb, has_fallback)

\* init(): init_system() under try/except/pass
BridgeInitOutcome(has_rust) ==
    IF has_rust THEN Outcome(1, 0, "nothing") ELSE Outcome(0, 0, "nothing")

DirectOps == {"get_memory_info", "get_network_stats", "get_disk_info"}

BridgeOps == DirectOps \cup {"get_cpu_percents", "get_process_list"}

BridgeRecord(op, accel, o) ==
    /\ bridge_op' = op
    /\ bridge_accel' = IF o.accel_calls > 0 THEN accel ELSE "none"
    /\ accel_calls' = o.accel_calls
    /\ fallback_calls' = o.fallback_calls
    /\ bridge_out' = o.out
    /\ UNCHANGED <<HAS_RUST, component, immVars, appVars, configVars, statsVars, consumerVars, memVars, cpuVars, perDiskVars, procVars, netVars, diskVars>>

BridgeGetCpuPercents ==
    /\ component = "bridge"
    /\ \E accel \in AccelOutcomes, fb \in FallbackOutcomes :
          BridgeRecord("get_cpu_percents", accel, BridgeCpuPercents(HAS_RUST, accel, fb))
    /\ bridge_request' = None
    /\ bridge_list' = None

BridgeGetDirect ==
    /\ component = "bridge"
    /\ \E op \in DirectOps, accel \in AccelOutcomes, fb \in FallbackOutcomes :
          BridgeRecord(op, accel, BridgeDirect(HAS_RUST, accel, fb))
    /\ bridge_request' = None
    /\ bridge_list' = None

BridgeInit ==
    /\ component = "bridge"
    /\ \E accel \in {"ok", "raise"} :
          BridgeRecord("init", accel, BridgeInitOutcome(HAS_RUST))
    /\ bridge_request' = None
    /\ bridge_list' = None

\* `import pulse_core` succeeded or raised ImportError.
BridgeImport ==
    /\ HAS_RUST \in BOOLEAN
    /\ bridge_op = "none"
    /\ bridge_accel = "none"
    /\ accel_calls = 0
    /\ fallback_calls = 0
    /\ bridge_out = "none"
    /\ bridge_request = None
    /\ bridge_list = None

(***************************************************************************)
(* direct_os.get_process_list (Linux).  The function keeps no state: a     *)
(* call is its input (the /proc listing and the arguments) and its result, *)
(* which the caller takes before the next call.                            *)
(***************************************************************************)
Pids == 1..MaxPid

PageCounts == {1, 2}

\* os.sysconf('SC_PAGE_SIZE')
PageSize == 4096

\* utime + stime of /proc/<pid>/stat, in clock ticks.
ProcTicks == {0, 1}

\* Reading /proc/<pid>/{comm,stat,statm}:
\*   ok       the three files are read;
\*   skipped  FileNotFoundError (the process was gone when a file was
\*            opened), PermissionError or IndexError: the loop catches these;
\*   raises   any other exception, which the loop does not catch:
\*            ProcessLookupError (ESRCH: the process exited after open()
\*            and before read()), ValueError (a field that is no integer).
ReadOutcomes == {"ok", "skipped", "raises"}

\* An entry of the listing; a PID that is not read shows no figures.
ProcEntries ==
    { e \in [pid : Pids, pages : PageCounts, ticks : ProcTicks, read : ReadOutcomes] :
        e.read # "ok" => e.pages = 1 /\ e.ticks = 0 }

Range(f) == { f[i] : i \in DOMAIN f }

\* os.listdir('/proc'), digits only: the PIDs once each, in any order.
Listings ==
    UNION { { l \in [1..k -> ProcEntries] :
                \A i, j \in 1..k : i # j => l[i].pid # l[j].pid } : k \in 0..MaxPid }

SortKeys == {"none", "cpu", "mem"}

Limits == {None} \cup { Some(n) : n \in 0..(MaxPid + 1) }

ProcessRecord(e) ==
    [pid |-> e.pid, cpu_percent |-> 0, memory_info |-> e.pages * PageSize]

\* The loop over the listing: one record per PID that was read.
RECURSIVE ReadProcesses(_)
ReadProcesses(listing) ==
    IF listing = << >> THEN << >>
    ELSE LET rest == ReadProcesses(Tail(listing))
         IN  IF Head(listing).read = "ok"
             THEN <<ProcessRecord(Head(listing))>> \o rest
             ELSE rest

SortField(sort_by) == IF sort_by = "cpu" THEN "cpu_percent" ELSE "memory_info"

\* list.sort(key, reverse=True) is stable: x goes behind the records whose
\* key is >= its own.
InsertDescending(sorted, x, field) ==
    LET n == Cardinality({ i \in 1..Len(sorted) : sorted[i][field] >= x[field] })
    IN  SubSeq(sorted, 1, n) \o <<x>> \o SubSeq(sorted, n + 1, Len(sorted))

RECURSIVE SortDescending(_, _)
SortDescending(processes, field) ==
    IF processes = << >> THEN << >>
    ELSE InsertDescending(SortDescending(SubSeq(processes, 1, Len(processes) - 1), field),
                          processes[Len(processes)], field)

SortProcesses(processes, sort_by) ==
    IF sort_by \in {"cpu", "mem"}
    THEN SortDescending(processes, SortField(sort_by))
    ELSE processes

\* `if limit: processes = processes[:limit]`
Truncate(processes, limit) ==
    IF limit # None /\ ValueOf(limit) # 0
    THEN SubSeq(processes, 1, Min(ValueOf(limit), Len(processes)))
    ELSE processes

\* ProcessList as it would be with a fault: the slice taken before the sort.
ProcessListTruncatedFirst(listing, sort_by, limit) ==
    SortProcesses(Truncate(ReadProcesses(listing), limit), sort_by)

ProcessList(listing, sort_by, limit) ==
    Truncate(SortProcesses(ReadProcesses(listing), sort_by), limit)

\* `utime`, `stime`: what the enumeration read of each PID, None for a PID
\* that is not listed or not read.
TicksRead(listing) ==
    [p \in Pids |->
        IF \E i \in 1..Len(listing) : listing[i].pid = p /\ listing[i].read = "ok"
        THEN Some((CHOOSE e \in Range(listing) : e.pid = p).ticks)
        ELSE None]

\* An exception the loop does not catch ends the call.
ProcessListRaises(listing) == \E i \in 1..Len(listing) : listing[i].read = "raises"

GetProcessList ==
    /\ component = "proc"
    /\ proc_call = None
    /\ \E listing \in Listings, sort_by \in SortKeys, limit \in Limits :
          /\ proc_call' = Some([listing |-> listing, sort_by |-> sort_by, limit |-> limit])
          /\ proc_result' = IF ProcessListRaises(listing) THEN None
                             ELSE Some(ProcessList(listing, sort_by, limit))
          /\ proc_ticks_seen' = IF ProcessListRaises(listing) THEN proc_ticks_seen
                                 ELSE TicksRead(listing)
    /\ last_procs' = None
    /\ UNCHANGED <<component, immVars, appVars, configVars, statsVars, consumerVars, memVars, cpuVars, perDiskVars, bridgeVars, netVars, diskVars>>

\* The caller takes the list.
ProcessListReturned ==
    /\ component = "proc"
    /\ proc_call # None
    /\ proc_call' = None
    /\ proc_result' = None
    /\ last_procs' = None
    /\ UNCHANGED proc_ticks_seen
    /\ UNCHANGED <<component, immVars, appVars, configVars, statsVars, consumerVars, memVars, cpuVars, perDiskVars, bridgeVars, netVars, diskVars>>

\* mem_info['total'] as the panel gets it, in bytes: 0 after a failed read
\* of /proc/meminfo, otherwise MemTotal kB * 1024.
PanelTotals == { kb * 1024 : kb \in {0, 4, 8, 16} }

\* `(mem_bytes / total_mem) * 100 if total_mem else 0`
PanelMemPercent(mem_bytes, total_mem) ==
    IF total_mem # 0 THEN Rat(mem_bytes * 100, total_mem) ELSE Zero

\* The loop over process_data: a row per process, except those with
\* cpu < 0.1 and mem < 0.1.
RECURSIVE PanelRows(_, _)
PanelRows(process_data, total_mem) ==
    IF process_data = << >> THEN << >>
    ELSE LET p == Head(process_data)
             cpu == Rat(p.cpu_percent, 1)
             mem == PanelMemPercent(p.memory_info, total_mem)
             rest == PanelRows(Tail(process_data), total_mem)
         IN  IF RatLess(cpu, Rat(1, 10)) /\ RatLess(mem, Rat(1, 10))
             THEN rest
             ELSE <<[pid |-> p.pid, cpu |-> cpu, mem |-> mem]>> \o rest

\* procs.sort(key=lambda x: x[self.sort_key], reverse=True), stable.
InsertRow(sorted, x, key) ==
    LET n == Cardinality({ i \in 1..Len(sorted) : RatLeq(x[key], sorted[i][key]) })
    IN  SubSeq(sorted, 1, n) \o <<x>> \o SubSeq(sorted, n + 1, Len(sorted))

RECURSIVE SortRows(_, _)
SortRows(procs, key) ==
    IF procs = << >> THEN << >>
    ELSE InsertRow(SortRows(SubSeq(procs, 1, Len(procs) - 1), key), procs[Len(procs)], key)

\* ProcessPanel.update_data, from the list core.get_process_list returned:
\* self.last_procs = procs[:50].
ProcessPanelUpdate ==
    /\ component = "proc"
    /\ proc_call # None
    /\ proc_result # None
    /\ last_procs = None
    /\ ValueOf(proc_call).sort_by \in {"cpu", "mem"}
    /\ \E total_mem \in PanelTotals :
          last_procs' = Some(Truncate(SortRows(PanelRows(ValueOf(proc_result), total_mem),
                                               ValueOf(proc_call).sort_by),
                                      Some(50)))
    /\ UNCHANGED <<proc_call, proc_result, proc_ticks_seen>>
    /\ UNCHANGED <<component, immVars, appVars, configVars, statsVars, consumerVars, memVars, cpuVars, perDiskVars, bridgeVars, netVars, diskVars>>

ProcInit ==
    /\ last_procs = None
    /\ proc_call = None
    /\ proc_result = None
    /\ proc_ticks_seen = [p \in Pids |-> None]

\* The /proc listings the bridge's callers are shown with: two processes,
\* both read.
BridgeListings ==
    { l \in Listings : Len(l) = 2 /\ \A i \in 1..2 : l[i].read = "ok" /\ l[i].ticks = 0 }

\* The limits the panels ask for: none, or fewer rows than processes.
BridgeLimits == {None, Some(1)}

\* `fallback_func()`: direct_os.get_process_list invoked with no argument,
\* hence with its defaults sort_by=None, limit=None.
FallbackProcessList(listing, sort_by, limit) == ProcessList(listing, "none", None)

BridgeGetProcessList ==
    /\ component = "bridge"
    /\ \E accel \in AccelOutcomes, fb \in FallbackOutcomes, has_fallback \in BOOLEAN,
          listing \in BridgeListings, sort_by \in SortKeys, limit \in BridgeLimits :
          LET o == BridgeProcessList(HAS_RUST, accel, fb, has_fallback)
          IN  /\ BridgeRecord("get_process_list", accel, o)
              /\ bridge_request' =
                    Some([listing |-> listing, sort_by |-> sort_by, limit |-> limit])
              /\ bridge_list' = IF o.out = "fallback"
                                THEN Some(FallbackProcessList(listing, sort_by, limit))
                                ELSE None

(***************************************************************************)
(* The panels' history deques and NetworkPanel.update_data.                *)
(***************************************************************************)
\* The time between two calls of a panel's update_data, in tenths of a
\* second: the app's refresh timer (refresh_rate, 1.0 s) or the immersive
\* screen's timer at the toggled sampling_rate (0.2 s).
TickIntervals == {2, 10}

\* deque(maxlen=...).append: a full deque drops its oldest entry.
DequeAppend(deque, x) ==
    IF Len(deque) < MaxHistory THEN Append(deque, x)
    ELSE Tail(Append(deque, x))

\* Bytes in a KB, as update_data divides.
KB == 1024

\* `min(rate, 1000)`: the cap for the sparkline.
NetCap == 1000

NetBytes == {0, KB, 1200 * KB}

\* psutil.net_io_counters()
NetCounters == [bytes_sent : NetBytes, bytes_recv : NetBytes]

\* `(current.x - self.last_net.x) / 1024`
NetRate(bytes, last_bytes) == Rat(bytes - last_bytes, KB)

\* The body of update_data once psutil.net_io_counters() returned `current`.
NetSample(current) ==
    IF last_net = None
    THEN /\ last_net' = Some(current)
         /\ UNCHANGED <<up_history, down_history, net_rates>>
    ELSE LET sent_rate == NetRate(current.bytes_sent, ValueOf(last_net).bytes_sent)
             recv_rate == NetRate(current.bytes_recv, ValueOf(last_net).bytes_recv)
         IN  /\ last_net' = Some(current)
             /\ up_history' = DequeAppend(up_history, PyMin(sent_rate, Rat(NetCap, 1)))
             /\ down_history' = DequeAppend(down_history, PyMin(recv_rate, Rat(NetCap, 1)))
             /\ net_rates' = Some([sent |-> sent_rate, recv |-> recv_rate])

NetUpdateData ==
    /\ component = "net"
    /\ \E dt \in TickIntervals : net_elapsed' = dt
    /\ \E current \in NetCounters : NetSample(current)
    /\ UNCHANGED net_header
    /\ UNCHANGED <<component, immVars, appVars, configVars, statsVars, consumerVars, memVars, cpuVars, perDiskVars, bridgeVars, procVars, diskVars>>

\* action_optimize: the baseline is read anew and the histories cleared.
NetOptimize ==
    /\ component = "net"
    /\ \E current \in NetCounters : last_net' = Some(current)
    /\ up_history' = << >>
    /\ down_history' = << >>
    /\ UNCHANGED <<net_rates, net_elapsed, net_header>>
    /\ UNCHANGED <<component, immVars, appVars, configVars, statsVars, consumerVars, memVars, cpuVars, perDiskVars, bridgeVars, procVars, diskVars>>

\* `self.up_history[-1] if self.up_history else 0`
LastOrZero(history) == IF Len(history) > 0 THEN history[Len(history)] ELSE Zero

\* NetworkPanel.update_transcendence: update_data(), then the hero header
\* with the UP and DOWN figures.
NetUpdateTranscendence ==
    /\ component = "net"
    /\ \E dt \in TickIntervals : net_elapsed' = dt
    /\ \E current \in NetCounters : NetSample(current)
    /\ net_header' = Some([up |-> LastOrZero(up_history'), down |-> LastOrZero(down_history')])
    /\ UNCHANGED <<component, immVars, appVars, configVars, statsVars, consumerVars, memVars, cpuVars, perDiskVars, bridgeVars, procVars, diskVars>>

\* NetworkPanel.__init__: psutil.net_io_counters(), or None if it raises.
NetInit ==
    /\ net_header = None
    /\ last_net \in {None} \cup { Some(c) : c \in NetCounters }
    /\ up_history = << >>
    /\ down_history = << >>
    /\ net_rates = None
    /\ net_elapsed = 0

(***************************************************************************)
(* DiskIOPanel.update_data.  Bytes are counted in MiB, times in ms.        *)
(***************************************************************************)
DiskMiB == {0, 60}

OpCounts == {0, 2}

OpMillis == {0, 5}

\* psutil.disk_io_counters()
DiskCounters ==
    [read_bytes : DiskMiB, write_bytes : DiskMiB, read_count : OpCounts,
     write_count : OpCounts, read_time : OpMillis, write_time : OpMillis]

\* `min(rate * 2, 100)`
DiskCap == 100

DiskHistoryValue(rate) == PyMin(Rat(rate.n * 2, rate.d), Rat(DiskCap, 1))

\* Latency with the time delta left undivided when no operation completed.
LatencyUndividedWhenIdle(delta_time, delta_count) ==
    IF delta_count > 0 THEN Rat(delta_time, delta_count) ELSE Rat(delta_time, 1)

\* `delta_time / delta_count if delta_count > 0 else 0`
Latency(delta_time, delta_count) ==
    IF delta_count > 0 THEN Rat(delta_time, delta_count) ELSE Zero

DiskUpdateData ==
    /\ component = "disk"
    /\ \E dt \in TickIntervals : disk_elapsed' = dt
    /\ \E current \in DiskCounters :
          IF last_io = None
          THEN /\ last_io' = Some(current)
               /\ UNCHANGED <<read_history, write_history, current_read_lat,
                              current_write_lat, disk_rates>>
          ELSE LET last == ValueOf(last_io)
                   read_rate == Rat(current.read_bytes - last.read_bytes, 1)
                   write_rate == Rat(current.write_bytes - last.write_bytes, 1)
               IN  /\ current_read_lat' = Latency(current.read_time - last.read_time,
                                                  current.read_count - last.read_count)
                   /\ current_write_lat' = Latency(current.write_time - last.write_time,
                                                   current.write_count - last.write_count)
                   /\ last_io' = Some(current)
                   /\ read_history' = DequeAppend(read_history, DiskHistoryValue(read_rate))
                   /\ write_history' = DequeAppend(write_history, DiskHistoryValue(write_rate))
                   /\ disk_rates' = Some([read |-> read_rate, write |-> write_rate])
    /\ UNCHANGED <<component, immVars, appVars, configVars, statsVars, consumerVars, memVars, cpuVars, perDiskVars, bridgeVars, procVars, netVars>>

\* DiskIOPanel.__init__: psutil.disk_io_counters(), or None if it raises.
DiskInit ==
    /\ last_io \in {None} \cup { Some(c) : c \in DiskCounters }
    /\ read_history = << >>
    /\ write_history = << >>
    /\ current_read_lat = Zero
    /\ current_write_lat = Zero
    /\ disk_rates = None
    /\ disk_elapsed = 0

(***************************************************************************)
(* direct_os.get_memory_info (Linux).  The function keeps no state: a call *)
(* is its input (what /proc/meminfo holds) and the dict it returns.        *)
(***************************************************************************)
\* The keys of /proc/meminfo the loop stores.
MeminfoKeys ==
    {"MemTotal", "MemAvailable", "MemFree", "Buffers", "Cached", "SwapTotal", "SwapFree"}

\* The figure behind a key, in kB.
MemKB == {0, 1, 2}

\* A line `Key:  value kB`; or a line that makes the loop raise, parts[1]
\* missing or no integer.
MeminfoLines == [key : MeminfoKeys, kb : MemKB] \cup {[key |-> "malformed", kb |-> 0]}

\* /proc/meminfo: it cannot be opened, or it holds some lines.
MeminfoReads ==
    { r \in [opened : BOOLEAN,
             lines : UNION { [1..k -> MeminfoLines] : k \in 0..MaxMemLines }] :
        ~r.opened => r.lines = << >> }

\* The key of `mem` the loop stores a line under.
MemField(key) ==
    CASE key = "MemTotal" -> "total"
      [] key = "MemAvailable" -> "available"
      [] key = "MemFree" -> "free"
      [] key = "Buffers" -> "buffers"
      [] key = "Cached" -> "cached"
      [] key = "SwapTotal" -> "swap_total"
      [] key = "SwapFree" -> "swap_free"

\* `mem.get(k, 0)`
DictGet(mem, k) == IF k \in DOMAIN mem THEN mem[k] ELSE 0

\* `mem[k] = v`
DictPut(mem, k, v) == [x \in DOMAIN mem \cup {k} |-> IF x = k THEN v ELSE mem[x]]

\* The loop over the lines: an exception ends it, `except Exception: pass`
\* keeps what was stored before.
RECURSIVE ParseMeminfo(_, _)
ParseMeminfo(lines, mem) ==
    IF lines = << >> \/ Head(lines).key = "malformed" THEN mem
    ELSE ParseMeminfo(Tail(lines),
                      DictPut(mem, MemField(Head(lines).key), Head(lines).kb * KB))

\* `(mem['used'] / mem['total'] * 100) if mem.get('total') else 0`
MemPercent(mem) ==
    IF DictGet(mem, "total") # 0
    THEN Rat(mem["used"] * 100, mem["total"])
    ELSE Zero

\* get_memory_info() with /proc/meminfo as `read`.
MemoryInfo(read) ==
    LET mem == IF read.opened THEN ParseMeminfo(read.lines, << >>) ELSE << >>
        with_used == DictPut(mem, "used", DictGet(mem, "total") - DictGet(mem, "available"))
        with_swap == DictPut(with_used, "swap_used",
                             DictGet(mem, "swap_total") - DictGet(mem, "swap_free"))
    IN  DictPut(with_swap, "percent", MemPercent(with_swap))

GetMemoryInfo ==
    /\ component = "mem"
    /\ mem_call = None
    /\ \E read \in MeminfoReads :
          /\ mem_call' = Some(read)
          /\ mem_result' = Some(MemoryInfo(read))
    /\ UNCHANGED <<component, immVars, appVars, configVars, statsVars, consumerVars, cpuVars, perDiskVars, bridgeVars, procVars,
                   netVars, diskVars>>

\* The caller takes the dict.
MemoryInfoReturned ==
    /\ component = "mem"
    /\ mem_call # None
    /\ mem_call' = None
    /\ mem_result' = None
    /\ UNCHANGED <<component, immVars, appVars, configVars, statsVars, consumerVars, cpuVars, perDiskVars, bridgeVars, procVars,
                   netVars, diskVars>>

MemInit ==
    /\ mem_call = None
    /\ mem_result = None

(***************************************************************************)
(* direct_os.get_network_stats (Linux).  The function keeps no state.      *)
(***************************************************************************)
Interfaces == {"lo", "eth0", "wlan0"}

\* Field 1 of a row, the bytes received.
RecvBytes == {0, 1}

\* Field 9 of a row, the bytes sent.
SentBytes == {0, 2}

\* A line of /proc/net/dev: a header line, which holds no ':'; or the row
\* of an interface, whose fields 1 and 9 are integers (parses) or are
\* missing or no integers.
NetDevLines ==
    {[kind |-> "header", iface |-> "", recv |-> 0, sent |-> 0, parses |-> TRUE]}
    \cup { l \in [kind : {"row"}, iface : Interfaces, recv : RecvBytes,
                  sent : SentBytes, parses : BOOLEAN] :
             ~l.parses => l.recv = 0 /\ l.sent = 0 }

\* /proc/net/dev: it cannot be opened, or it holds some lines.
NetDevReads ==
    { r \in [opened : BOOLEAN,
             lines : UNION { [1..k -> NetDevLines] : k \in 0..MaxNetLines }] :
        ~r.opened => r.lines = << >> }

\* ParseNetDev without `if iface != 'lo'`.
RECURSIVE ParseNetDevWithLoopback(_, _)
ParseNetDevWithLoopback(lines, totals) ==
    IF lines = << >> THEN totals
    ELSE LET line == Head(lines)
         IN  IF line.kind = "header"
             THEN ParseNetDevWithLoopback(Tail(lines), totals)
             ELSE IF ~line.parses THEN totals
             ELSE ParseNetDevWithLoopback(Tail(lines),
                      [bytes_recv |-> totals.bytes_recv + line.recv,
                       bytes_sent |-> totals.bytes_sent + line.sent])

\* The loop over the lines: an exception ends it, `except Exception: pass`
\* keeps the totals reached.
RECURSIVE ParseNetDev(_, _)
ParseNetDev(lines, totals) ==
    IF lines = << >> THEN totals
    ELSE LET line == Head(lines)
         IN  IF line.kind = "header" \/ line.iface = "lo"
             THEN ParseNetDev(Tail(lines), totals)
             ELSE IF ~line.parses THEN totals
             ELSE ParseNetDev(Tail(lines),
                      [bytes_recv |-> totals.bytes_recv + line.recv,
                       bytes_sent |-> totals.bytes_sent + line.sent])

\* get_network_stats() with /proc/net/dev as `read`.
NetworkStats(read) ==
    LET totals == [bytes_recv |-> 0, bytes_sent |-> 0]
    IN  IF read.opened THEN ParseNetDev(read.lines, totals) ELSE totals

GetNetworkStats ==
    /\ component = "netstats"
    /\ stats_call = None
    /\ \E read \in NetDevReads :
          /\ stats_call' = Some(read)
          /\ stats_result' = Some(NetworkStats(read))
    /\ UNCHANGED <<component, immVars, appVars, configVars, consumerVars, memVars, cpuVars, perDiskVars, bridgeVars,
                   procVars, netVars, diskVars>>

\* The caller takes the dict.
NetworkStatsReturned ==
    /\ component = "netstats"
    /\ stats_call # None
    /\ stats_call' = None
    /\ stats_result' = None
    /\ UNCHANGED <<component, immVars, appVars, configVars, consumerVars, memVars, cpuVars, perDiskVars, bridgeVars,
                   procVars, netVars, diskVars>>

StatsInit ==
    /\ stats_call = None
    /\ stats_result = None

(***************************************************************************)
(* config.py: load_config, save_config, and the app's use of the dict.     *)
(* A dict is a function on its keys; a section is a dict of strings, a     *)
(* top-level value that is no table is [scalar |-> value].                 *)
(***************************************************************************)
\* The literal DEFAULT_CONFIG is built from when the module is imported.
DefaultConfig == [ui |-> [theme |-> "nord"], core |-> [refresh_rate |-> "1.0"]]

Themes == {"nord", "dracula"}

RefreshRates == {"1.0", "0.5"}

\* `isinstance(values, dict)`
IsDict(value) == "scalar" \notin DOMAIN value

\* A line of a TOML file: `[name]`, `name = value`, or one that is no TOML.
TableLine(name) == [kind |-> "table", name |-> name, value |-> ""]

KeyValueLine(name, value) == [kind |-> "kv", name |-> name, value |-> value]

GarbageLine == [kind |-> "garbage", name |-> "", value |-> ""]

\* The order in which keys are written.
KeyOrder == <<"ui", "core", "theme", "refresh_rate">>

\* tomli_w.dump of a table's or the document's plain values.
RECURSIVE DumpValues(_, _)
DumpValues(dict, names) ==
    IF names = << >> THEN << >>
    ELSE LET name == Head(names)
             line == IF name \notin DOMAIN dict THEN << >>
                     ELSE IF IsDict(dict[name]) THEN << >>
                     ELSE <<KeyValueLine(name, dict[name].scalar)>>
         IN  line \o DumpValues(dict, Tail(names))

\* tomli_w.dump of a table's keys.
RECURSIVE DumpKeys(_, _)
DumpKeys(table, names) ==
    IF names = << >> THEN << >>
    ELSE LET name == Head(names)
             line == IF name \in DOMAIN table
                     THEN <<KeyValueLine(name, table[name])>> ELSE << >>
         IN  line \o DumpKeys(table, Tail(names))

\* tomli_w.dump of the document's tables.
RECURSIVE DumpTables(_, _)
DumpTables(dict, names) ==
    IF names = << >> THEN << >>
    ELSE LET name == Head(names)
             lines == IF name \in DOMAIN dict /\ IsDict(dict[name])
                      THEN <<TableLine(name)>> \o DumpKeys(dict[name], KeyOrder)
                      ELSE << >>
         IN  lines \o DumpTables(dict, Tail(names))

\* tomli_w.dump(config, f): the plain values first, then the tables.
TomlDump(config) == DumpValues(config, KeyOrder) \o DumpTables(config, KeyOrder)

\* tomllib.load(f): the dict the lines spell, or None where it raises
\* TOMLDecodeError (a line that is no TOML, a name defined twice).
RECURSIVE TomlLoad(_, _, _)
TomlLoad(lines, doc, table) ==
    IF lines = << >> THEN Some(doc)
    ELSE LET line == Head(lines)
         IN  IF line.kind = "garbage" THEN None
             ELSE IF line.kind = "table"
             THEN IF line.name \in DOMAIN doc THEN None
                  ELSE TomlLoad(Tail(lines), DictPut(doc, line.name, << >>), Some(line.name))
             ELSE IF table = None
             THEN IF line.name \in DOMAIN doc THEN None
                  ELSE TomlLoad(Tail(lines),
                                DictPut(doc, line.name, [scalar |-> line.value]), table)
             ELSE LET name == ValueOf(table)
                  IN  IF line.name \in DOMAIN doc[name] THEN None
                      ELSE TomlLoad(Tail(lines),
                                    DictPut(doc, name, DictPut(doc[name], line.name, line.value)),
                                    table)

\* `config[section].update(values)`
DictUpdate(dict, values) ==
    [k \in DOMAIN dict \cup DOMAIN values |-> IF k \in DOMAIN values THEN values[k] ELSE dict[k]]

\* The loop of load_config over user_config.items(), on a copy of the defaults.
MergeConfig(defaults, user_config) ==
    [section \in DOMAIN defaults \cup DOMAIN user_config |->
        IF section \notin DOMAIN user_config THEN defaults[section]
        ELSE IF (section \in DOMAIN defaults) /\ IsDict(user_config[section])
                /\ IsDict(defaults[section])
        THEN DictUpdate(defaults[section], user_config[section])
        ELSE user_config[section]]

\* get_config_dir()'s mkdir and save_config's open(path, "wb"): both work;
\* the directory is there but the file cannot be written; mkdir raises.
DirOutcomes == {"ok", "unwritable", "mkdir_raises"}

\* The dicts callers hand to save_config: any of the two sections, or none.
SavedConfigs ==
    LET Sections(name, key, values) ==
            {<< >>} \cup { DictPut(<< >>, name, DictPut(<< >>, key, v)) : v \in values }
    IN  { DictUpdate(ui, core) : ui \in Sections("ui", "theme", Themes),
                                 core \in Sections("core", "refresh_rate", RefreshRates) }

\* What config.toml holds before the program first writes it, if it exists.
HandWrittenFiles ==
    { << >>,
      <<GarbageLine>>,
      <<TableLine("ui"), TableLine("ui")>>,
      <<TableLine("ui"), KeyValueLine("theme", "dracula")>>,
      <<KeyValueLine("theme", "dracula")>>,
      <<KeyValueLine("ui", "dracula")>> }

\* The body of save_config once the path is known: a failing open is passed over.
WriteConfig(config, dir) ==
    IF dir = "ok"
    THEN /\ config_file' = Some(TomlDump(config))
         /\ last_saved' = Some(config)
         /\ cfg_outcome' = "saved"
    ELSE /\ cfg_outcome' = "ignored"
         /\ UNCHANGED <<config_file, last_saved>>

\* What load_config returns for a file that exists: the merge, or a copy of
\* DEFAULT_CONFIG when the file cannot be parsed.
LoadedConfig(defaults, lines) ==
    LET user_config == TomlLoad(lines, << >>, None)
    IN  IF user_config = None THEN defaults
        ELSE MergeConfig(defaults, ValueOf(user_config))

LoadConfig ==
    /\ component = "config"
    /\ cfg_op' = "load"
    /\ \E dir \in DirOutcomes :
          IF dir = "mkdir_raises"
          THEN /\ cfg_outcome' = "raised"
               /\ UNCHANGED <<DEFAULT_CONFIG, config_file, app_config, last_saved>>
          ELSE IF config_file = None
          THEN /\ IF dir = "ok"
                  THEN /\ config_file' = Some(TomlDump(DEFAULT_CONFIG))
                       /\ last_saved' = Some(DEFAULT_CONFIG)
                  ELSE UNCHANGED <<config_file, last_saved>>
               /\ app_config' = Some([alias |-> TRUE, value |-> DEFAULT_CONFIG])
               /\ cfg_outcome' = "missing"
               /\ UNCHANGED DEFAULT_CONFIG
          ELSE /\ app_config' = Some([alias |-> FALSE,
                                       value |-> LoadedConfig(DEFAULT_CONFIG,
                                                              ValueOf(config_file))])
               /\ cfg_outcome' = IF TomlLoad(ValueOf(config_file), << >>, None) = None
                                  THEN "unparsable" ELSE "parsed"
               /\ UNCHANGED <<DEFAULT_CONFIG, config_file, last_saved>>
    /\ UNCHANGED <<component, immVars, appVars, statsVars, consumerVars, memVars, cpuVars, perDiskVars,
                   bridgeVars, procVars, netVars, diskVars>>

\* save_config(config), called with a dict of the caller's own.
SaveConfig ==
    /\ component = "config"
    /\ cfg_op' = "save"
    /\ \E config \in SavedConfigs, dir \in DirOutcomes :
          IF dir = "mkdir_raises"
          THEN /\ cfg_outcome' = "raised"
               /\ UNCHANGED <<config_file, last_saved>>
          ELSE WriteConfig(config, dir)
    /\ UNCHANGED <<DEFAULT_CONFIG, app_config>>
    /\ UNCHANGED <<component, immVars, appVars, statsVars, consumerVars, memVars, cpuVars, perDiskVars,
                   bridgeVars, procVars, netVars, diskVars>>

\* PulseApp.action_cycle_theme: the theme is stored in the dict load_config
\* returned, in place, and the dict is saved.
CycleTheme ==
    /\ component = "config"
    /\ app_config # None
    /\ cfg_op' = "cycle"
    /\ \E theme \in Themes, dir \in DirOutcomes :
          LET held == ValueOf(app_config)
              config == held.value
              ui == IF "ui" \in DOMAIN config THEN config["ui"] ELSE << >>
              changed == DictPut(config, "ui", DictPut(ui, "theme", theme))
          IN  IF ~IsDict(ui)
              THEN \* `self.config["ui"]["theme"] = ...` on a str raises TypeError
                   /\ cfg_outcome' = "raised"
                   /\ UNCHANGED <<DEFAULT_CONFIG, config_file, app_config, last_saved>>
              ELSE /\ app_config' = Some([alias |-> held.alias, value |-> changed])
                   /\ DEFAULT_CONFIG' = IF held.alias THEN changed ELSE DEFAULT_CONFIG
                   /\ IF dir = "mkdir_raises"
                      THEN /\ cfg_outcome' = "raised"
                           /\ UNCHANGED <<config_file, last_saved>>
                      ELSE WriteConfig(changed, dir)
    /\ UNCHANGED <<component, immVars, appVars, statsVars, consumerVars, memVars, cpuVars, perDiskVars,
                   bridgeVars, procVars, netVars, diskVars>>

ConfigInit ==
    /\ DEFAULT_CONFIG = DefaultConfig
    /\ config_file \in {None} \cup { Some(f) : f \in HandWrittenFiles }
    /\ app_config = None
    /\ last_saved = None
    /\ cfg_op = "none"
    /\ cfg_outcome = "none"

(***************************************************************************)
(* PulseApp: the refresh timer, the freeze switch and the focus handler.   *)
(* What a panel's update_data does is the panels' part of the model; here  *)
(* a handler is the set of panels whose update_data it calls.              *)
(***************************************************************************)
\* The panels refresh_data updates, by id.
Panels ==
    {"cpu-panel", "memory-panel", "net-panel", "disk-panel", "storage-panel",
     "docker-panel", "process-panel", "main-panel", "insight-panel"}

\* refresh_data(): nothing while frozen, else every panel's update_data.
RefreshData(is_frozen) == IF is_frozen THEN {} ELSE Panels

\* The interval timer fires: refresh_data.
RefreshTick ==
    /\ component = "app"
    /\ app_event' = "tick"
    /\ updated' = RefreshData(frozen)
    /\ UNCHANGED <<frozen, focused_panel>>
    /\ UNCHANGED <<component, immVars, configVars, statsVars, consumerVars, memVars, cpuVars,
                   perDiskVars, bridgeVars, procVars, netVars, diskVars>>

\* T: action_cycle_theme ends with refresh_data (what it does to the
\* configuration is CycleTheme).
ActionCycleTheme ==
    /\ component = "app"
    /\ app_event' = "cycle_theme"
    /\ updated' = RefreshData(frozen)
    /\ UNCHANGED <<frozen, focused_panel>>
    /\ UNCHANGED <<component, immVars, configVars, statsVars, consumerVars, memVars, cpuVars,
                   perDiskVars, bridgeVars, procVars, netVars, diskVars>>

\* F: action_freeze toggles the switch.
ActionFreeze ==
    /\ component = "app"
    /\ app_event' = "freeze"
    /\ frozen' = ~frozen
    /\ updated' = {}
    /\ UNCHANGED focused_panel
    /\ UNCHANGED <<component, immVars, configVars, statsVars, consumerVars, memVars, cpuVars,
                   perDiskVars, bridgeVars, procVars, netVars, diskVars>>

\* on_descendant_focus: a widget gains focus; target is the panel it is or
\* is inside of, None if there is none.
OnDescendantFocus ==
    /\ component = "app"
    /\ app_event' = "focus"
    /\ \E target \in {None} \cup { Some(p) : p \in Panels } :
          IF target # None /\ target # Some("main-panel")
          THEN /\ focused_panel' = target
               /\ updated' = {"main-panel"}
          ELSE /\ focused_panel' = None
               /\ updated' = {}
    /\ UNCHANGED frozen
    /\ UNCHANGED <<component, immVars, configVars, statsVars, consumerVars, memVars, cpuVars,
                   perDiskVars, bridgeVars, procVars, netVars, diskVars>>

\* PulseApp.__init__ and MainViewPanel.__init__.
AppInit ==
    /\ frozen = FALSE
    /\ focused_panel = None
    /\ app_event = "none"
    /\ updated = {}

CpuInit ==
    /\ cpu_read = None
    /\ last_cpu_times = None
    /\ last_cpu_check = 0
    /\ cpu_result = None
    /\ cpu_path = "none"
    /\ cpu_op = "none"

(***************************************************************************)
(* ImmersiveScreen: the refresh timer and the precision toggle.  Intervals *)
(* are in tenths of a second.                                              *)
(***************************************************************************)
ImmersivePanels == {"cpu-panel", "process-panel", "storage-panel"}

\* self.sampling_rate as the panels' __init__ sets it: 1.0, 2.0, 5.0.
InitialSamplingRate(panel) ==
    CASE panel = "process-panel" -> 20
      [] panel = "storage-panel" -> 50
      [] OTHER -> 10

\* `0.2 if self.source_panel.sampling_rate == 1.0 else 1.0`
ToggledRate(rate) == IF rate = 10 THEN 2 ELSE 10

\* refresh_view: without the static widget the panel's update_transcendence
\* is driven; with it, update_data when sampling_rate < 1.0, then the view.
RefreshView(static, rate) ==
    IF ~static THEN "update_transcendence"
    ELSE IF rate < 10 THEN "update_data" ELSE "view"

\* action_maximize_immersive: push_screen(ImmersiveScreen(focused)), then
\* on_mount: refresh_view() and the timer at the panel's sampling_rate.
ImmersiveMount ==
    /\ component = "immersive"
    /\ source_panel = None
    /\ \E panel \in ImmersivePanels, static \in BOOLEAN :
          /\ source_panel' = Some(panel)
          /\ static_view' = static
          /\ view_refresh' = RefreshView(static, sampling_rate[panel])
          /\ refresh_timers' = <<sampling_rate[panel]>>
          /\ rate_at_mount' = sampling_rate[panel]
    /\ toggles' = 0
    /\ UNCHANGED sampling_rate
    /\ UNCHANGED <<component, appVars, configVars, statsVars, consumerVars, memVars, cpuVars, perDiskVars, bridgeVars, procVars, netVars, diskVars>>

\* action_toggle_rate: the rate is switched, self.refresh_timer stopped and
\* replaced by a timer at the new rate, then refresh_view().
ActionToggleRate ==
    /\ component = "immersive"
    /\ source_panel # None
    /\ toggles < MaxToggles
    /\ LET panel == ValueOf(source_panel)
           rate == ToggledRate(sampling_rate[panel])
       IN  /\ sampling_rate' = [sampling_rate EXCEPT ![panel] = rate]
           /\ refresh_timers' =
                 SubSeq(refresh_timers, 1, Len(refresh_timers) - 1) \o <<rate>>
           /\ view_refresh' = RefreshView(static_view, rate)
    /\ toggles' = toggles + 1
    /\ UNCHANGED <<source_panel, static_view, rate_at_mount>>
    /\ UNCHANGED <<component, appVars, configVars, statsVars, consumerVars, memVars, cpuVars, perDiskVars, bridgeVars, procVars, netVars, diskVars>>

\* The refresh timer fires: refresh_view().
ImmersiveTimerTick ==
    /\ component = "immersive"
    /\ source_panel # None
    /\ Len(refresh_timers) > 0
    /\ view_refresh' = RefreshView(static_view, sampling_rate[ValueOf(source_panel)])
    /\ UNCHANGED <<sampling_rate, source_panel, static_view, refresh_timers, rate_at_mount,
                   toggles>>
    /\ UNCHANGED <<component, appVars, configVars, statsVars, consumerVars, memVars, cpuVars, perDiskVars, bridgeVars, procVars, netVars, diskVars>>

\* app.pop_screen: the screen is unmounted and its timers stop with it; the
\* panel keeps its sampling_rate.
ImmersivePop ==
    /\ component = "immersive"
    /\ source_panel # None
    /\ source_panel' = None
    /\ refresh_timers' = << >>
    /\ toggles' = 0
    /\ view_refresh' = "none"
    /\ UNCHANGED <<sampling_rate, static_view, rate_at_mount>>
    /\ UNCHANGED <<component, appVars, configVars, statsVars, consumerVars, memVars, cpuVars, perDiskVars, bridgeVars, procVars, netVars, diskVars>>

ImmersiveInit ==
    /\ sampling_rate = [p \in ImmersivePanels |-> InitialSamplingRate(p)]
    /\ source_panel = None
    /\ static_view = FALSE
    /\ refresh_timers = << >>
    /\ rate_at_mount = 0
    /\ toggles = 0
    /\ view_refresh = "none"

Components == {"cpu", "perdisk", "bridge", "proc", "net", "disk", "consumers", "mem",
               "netstats", "config", "app", "immersive"}

Init ==
    /\ component \in Components
    /\ CpuInit
    /\ ConsumersInit
    /\ MemInit
    /\ StatsInit
    /\ ConfigInit
    /\ AppInit
    /\ ImmersiveInit
    /\ (component # "config" => config_file = None)
    /\ PerDiskInit
    /\ BridgeImport
    /\ ProcInit
    /\ NetInit
    /\ (component # "net" => last_net = None)
    /\ DiskInit
    /\ (component # "disk" => last_io = None)
    /\ (component # "bridge" => HAS_RUST = FALSE)

Next ==
    \/ GetCpuPercents
    \/ GetCpuPercentsRaises
    \/ DirectInit
    \/ DirectInitRaises
    \/ ConsumerPoll
    \/ GetMemoryInfo
    \/ MemoryInfoReturned
    \/ GetNetworkStats
    \/ NetworkStatsReturned
    \/ LoadConfig
    \/ SaveConfig
    \/ CycleTheme
    \/ RefreshTick
    \/ ActionCycleTheme
    \/ ActionFreeze
    \/ OnDescendantFocus
    \/ ImmersiveMount
    \/ ActionToggleRate
    \/ ImmersiveTimerTick
    \/ ImmersivePop
    \/ UpdateTranscendence
    \/ UpdateTranscendenceRaises
    \/ BridgeGetCpuPercents
    \/ BridgeGetDirect
    \/ BridgeGetProcessList
    \/ BridgeInit
    \/ GetProcessList
    \/ ProcessListReturned
    \/ ProcessPanelUpdate
    \/ NetUpdateData
    \/ NetOptimize
    \/ NetUpdateTranscendence
    \/ DiskUpdateData

Spec == Init /\ [][Next]_vars

(***************************************************************************)
(* Claims about get_cpu_percents.                                          *)
(***************************************************************************)
\* The baseline a call compared against, and the snapshot it read, seen
\* across the step the call takes.
CpuReturned == cpu_path' \in {"fresh", "stale", "delta"}

\* C1: two successive calls that read the same cores, a positive time apart:
\* the second returns, for each core, 100 * (busy2 - busy1) / (total2 - total1)
\* against the snapshot the first stored (stated for counters that advanced,
\* busy by no more than total).
C1_SecondCallIsDelta ==
    [][ ( /\ cpu_op' = "get"
          /\ CpuReturned
          /\ last_cpu_times # None
          /\ last_cpu_check' - last_cpu_check > 0
          /\ Len(ValueOf(last_cpu_times')) = Len(ValueOf(last_cpu_times)) )
        => \A i \in 1..Len(ValueOf(last_cpu_times)) :
              LET prev == ValueOf(last_cpu_times)[i]
                  curr == ValueOf(last_cpu_times')[i]
                  busy == curr.busy - prev.busy
                  total == curr.total - prev.total
              IN  (total > 0 /\ busy >= 0 /\ busy <= total)
                  => ValueOf(cpu_result')[i] = Rat(100 * busy, total) ]_vars

\* C3: every value get_cpu_percents returns is within [0, 100].
C3_PercentInRange ==
    cpu_result # None =>
        \A i \in DOMAIN ValueOf(cpu_result) :
            /\ RatLeq(Zero, ValueOf(cpu_result)[i])
            /\ RatLeq(ValueOf(cpu_result)[i], Hundred)

\* C8: once init() has stored a baseline, the next get_cpu_percents call
\* returns the delta against that baseline, not the all-zero first sample.
C8_FirstCallAfterInitIsDelta ==
    [][ ( /\ cpu_op = "init"
          /\ cpu_path \in {"fresh", "stale", "delta"}
          /\ cpu_op' = "get"
          /\ CpuReturned
          /\ Len(ValueOf(last_cpu_times')) = Len(ValueOf(last_cpu_times)) )
        => \A i \in 1..Len(ValueOf(last_cpu_times)) :
              LET prev == ValueOf(last_cpu_times)[i]
                  curr == ValueOf(last_cpu_times')[i]
                  busy == curr.busy - prev.busy
                  total == curr.total - prev.total
              IN  (total > 0 /\ busy > 0 /\ busy <= total)
                  => ValueOf(cpu_result')[i] = Rat(100 * busy, total) ]_vars

(***************************************************************************)
(* Claims about the first sample and about a non-positive divisor.         *)
(***************************************************************************)
NoRates == [read |-> Zero, write |-> Zero]

CoreDivisorNotPositive(i) ==
    ValueOf(last_cpu_times')[i].total - ValueOf(last_cpu_times)[i].total <= 0

\* C7 as claimed: with a divisor that is not positive the sampler returns the
\* value it last reported for that series.
C7_NonPositiveDivisorKeepsLast ==
    [][ /\ (cpu_path' = "delta" /\ cpu_result # None) =>
              \A i \in DOMAIN ValueOf(cpu_result') \cap DOMAIN ValueOf(cpu_result) :
                  CoreDivisorNotPositive(i)
                  => ValueOf(cpu_result')[i] = ValueOf(cpu_result)[i]
        /\ \A d \in Devices :
              (disk_seen'[d] = "nonpos" /\ disk_rows[d] # None)
              => disk_rows'[d] = disk_rows[d] ]_vars

\* C7, amended: with a divisor that is not positive the sampler reports 0.0
\* for that series instead of dividing.
C7_NonPositiveDivisorYieldsZero ==
    [][ /\ cpu_path' = "delta" =>
              \A i \in DOMAIN ValueOf(cpu_result') :
                  CoreDivisorNotPositive(i) => ValueOf(cpu_result')[i] = Zero
        /\ \A d \in Devices :
              disk_seen'[d] = "nonpos" => disk_rows'[d] = Some(NoRates) ]_vars

\* A device updated twice at the same time, after its counters moved.
C7_Witness ==
    \E d \in Devices :
        /\ disk_seen[d] = "nonpos"
        /\ ValueOf(last_per_disk_io[d]).io.read_bytes > 0
        /\ disk_rows[d] = Some(NoRates)

C6_AvailabilityDecidedOnce ==
    [][ /\ HAS_RUST' = HAS_RUST
        /\ ~HAS_RUST => (accel_calls' = 0 /\ bridge_accel' = "none") ]_vars

\* Without the accelerator, a call served by the fallback.
C6_Witness ==
    /\ ~HAS_RUST
    /\ bridge_op = "get_memory_info"
    /\ accel_calls = 0
    /\ bridge_out = "fallback"

(***************************************************************************)
(* Claims about get_process_list.                                          *)
(***************************************************************************)
ProcKey(r) == IF ValueOf(proc_call).sort_by = "cpu" THEN r.cpu_percent ELSE r.memory_info

\* C9: for sort_by in {cpu, mem} the records come in descending order of the
\* key, and records with equal keys in ascending order of pid.
C9_TiesByAscendingPid ==
    (proc_result # None /\ ValueOf(proc_call).sort_by \in {"cpu", "mem"}) =>
        \A i, j \in 1..Len(ValueOf(proc_result)) :
            i < j =>
                LET a == ValueOf(proc_result)[i]
                    b == ValueOf(proc_result)[j]
                IN  \/ ProcKey(a) > ProcKey(b)
                    \/ (ProcKey(a) = ProcKey(b) /\ a.pid < b.pid)

\* The entries of the listing that were read.
Readable == { e \in Range(ValueOf(proc_call).listing) : e.read = "ok" }

\* C10: the result is the first min(limit, N) records of the sorted list of
\* all N readable processes, all N for limit 0 or None: it has that length,
\* holds readable processes once each, is in descending order of the key, and
\* no process left out has a larger key than one kept; unsorted, it is the
\* head of the listing's readable entries.
C10_TruncatedAfterSorting ==
    proc_result # None =>
        LET call == ValueOf(proc_call)
            result == ValueOf(proc_result)
            n == Cardinality(Readable)
            kept == { r.pid : r \in Range(result) }
        IN  /\ Len(result) = IF call.limit = None \/ call.limit = Some(0)
                             THEN n ELSE Min(ValueOf(call.limit), n)
            /\ Cardinality(kept) = Len(result)
            /\ \A r \in Range(result) :
                  \E e \in Readable :
                      e.pid = r.pid /\ r.memory_info = e.pages * PageSize
            /\ call.sort_by \in {"cpu", "mem"} =>
                  /\ \A i, j \in 1..Len(result) :
                        i < j => ProcKey(result[i]) >= ProcKey(result[j])
                  /\ \A e \in Readable :
                        e.pid \notin kept =>
                            \A r \in Range(result) :
                                ProcKey(r) >= ProcKey(ProcessRecord(e))
            /\ call.sort_by = "none" =>
                  \A i \in 1..Len(result) :
                      result[i].pid =
                          ReadProcesses(call.listing)[i].pid

\* Two readable processes, the larger one listed last, limit 1: the larger
\* one is returned.
C10_Witness ==
    /\ proc_result # None
    /\ ValueOf(proc_call).sort_by = "mem"
    /\ ValueOf(proc_call).limit = Some(1)
    /\ Cardinality(Readable) = 2
    /\ Len(ValueOf(proc_result)) = 1
    /\ ValueOf(proc_result)[1].pid = ValueOf(proc_call).listing[2].pid
    /\ ValueOf(proc_result)[1].memory_info = 2 * PageSize

(***************************************************************************)
(* Claims about the panels' rates.                                         *)
(***************************************************************************)
NonNegative(x) == RatLeq(Zero, x)

\* C4: the upload/download rates of NetworkPanel.update_data, the read/write
\* rates of DiskIOPanel.update_data and the values in their history series
\* are never negative.
C4_RatesNeverNegative ==
    /\ net_rates # None =>
          (NonNegative(ValueOf(net_rates).sent) /\ NonNegative(ValueOf(net_rates).recv))
    /\ \A i \in DOMAIN up_history : NonNegative(up_history[i])
    /\ \A i \in DOMAIN down_history : NonNegative(down_history[i])
    /\ disk_rates # None =>
          (NonNegative(ValueOf(disk_rates).read) /\ NonNegative(ValueOf(disk_rates).write))
    /\ \A i \in DOMAIN read_history : NonNegative(read_history[i])
    /\ \A i \in DOMAIN write_history : NonNegative(write_history[i])

(***************************************************************************)
(* Claims about process churn and per-process CPU figures.                 *)
(***************************************************************************)
\* C11: whatever happens to the processes listed -- one is gone when its
\* files are opened, one exits while they are read -- the call returns a
\* list, and with no limit that list holds exactly the PIDs that were read.
C11_ProcessExitNeverRaises ==
    proc_call # None =>
        /\ proc_result # None
        /\ ValueOf(proc_call).limit = None =>
              { r.pid : r \in Range(ValueOf(proc_result)) } = { e.pid : e \in Readable }

\* C12: across a call that returns, a PID the previous enumeration did not
\* read gets cpu_percent 0, and a PID whose utime + stime is larger than the
\* previous enumeration read gets a cpu_percent greater than 0.
C12_CpuPercentFromTickDelta ==
    [][ (proc_call = None /\ proc_call' # None /\ proc_result' # None) =>
            \A r \in Range(ValueOf(proc_result')) :
                LET e == CHOOSE x \in Range(ValueOf(proc_call').listing) : x.pid = r.pid
                    seen == proc_ticks_seen[r.pid]
                IN  /\ seen = None => r.cpu_percent = 0
                    /\ (seen # None /\ e.ticks > ValueOf(seen)) => r.cpu_percent > 0
      ]_vars

(***************************************************************************)
(* Claims about the consumers of get_cpu_percents.                         *)
(***************************************************************************)
\* What a consumer polling alone is returned: the globals then hold what its
\* own previous call stored.
AloneResult(own, current, now) ==
    IF own = None \/ StaleBaseline(ValueOf(own).check, now)
    THEN ZeroList(current)
    ELSE DeltaList(ValueOf(own).times, current)

\* C13: every poll returns what the polling consumer would be returned if it
\* were the only caller of get_cpu_percents, however the other consumer's
\* polls are interleaved with its own.
C13_ConsumersDoNotInterfere ==
    [][ (component = "consumers" /\ cpu_consumer' # "none") =>
            cpu_result' = Some(AloneResult(own_baseline[cpu_consumer'],
                                           ValueOf(last_cpu_times'), last_cpu_check'))
      ]_vars

(***************************************************************************)
(* Claims about what get_cpu_percents hands back.                          *)
(***************************************************************************)
\* C14: every call of get_cpu_percents, by init() or by a consumer, returns
\* a list, also when /proc/stat cannot be opened or a cpuN line cannot be
\* parsed; no call ends in an exception.
C14_CpuPercentsNeverRaises ==
    cpu_op # "none" => (cpu_path # "raised" /\ cpu_result # None)

\* C18: the list a call returns is not empty and has one entry for each core
\* of the snapshot that call read, which is the snapshot it stored.
C18_OneEntryPerCore ==
    cpu_result # None =>
        /\ Len(ValueOf(cpu_result)) > 0
        /\ Len(ValueOf(cpu_result)) = Len(ValueOf(last_cpu_times))

(***************************************************************************)
(* Claims about get_memory_info.                                           *)
(***************************************************************************)
\* The read of /proc/meminfo failed: at open, or at one of its lines.
MeminfoReadFailed ==
    \/ ~ValueOf(mem_call).opened
    \/ \E i \in DOMAIN ValueOf(mem_call).lines : ValueOf(mem_call).lines[i].key = "malformed"

MemoryInfoFields == {"total", "available", "used", "swap_total", "swap_used"}

\* C15: the dict get_memory_info returns has the keys total, available, used,
\* percent, swap_total and swap_used, with used = total - available; after a
\* failed read all six are there and are 0.
C15_MemoryInfoComplete ==
    mem_result # None =>
        LET mem == ValueOf(mem_result)
        IN  /\ (MemoryInfoFields \cup {"percent"}) \subseteq DOMAIN mem
            /\ mem["used"] = mem["total"] - mem["available"]
            /\ MeminfoReadFailed =>
                  /\ \A k \in MemoryInfoFields : mem[k] = 0
                  /\ mem["percent"] = Zero

\* C16: the percent of the dict get_memory_info returns is within [0, 100],
\* whatever MemTotal and MemAvailable the file holds or lacks.
C16_MemoryPercentInRange ==
    mem_result # None =>
        /\ RatLeq(Zero, ValueOf(mem_result)["percent"])
        /\ RatLeq(ValueOf(mem_result)["percent"], Hundred)

(***************************************************************************)
(* Claims about the panels' throughput and latency figures.                *)
(***************************************************************************)
\* C17: across an update_data call that has a previous sample, the rate it
\* reports is the byte delta between the two samples divided by the seconds
\* between them, for the network panel (whose figure is in KB) and the disk
\* panel (in MiB), at either timer interval.
C17_RateIsDeltaOverElapsed ==
    [][ /\ (component = "net" /\ last_net # None /\ up_history' # << >>) =>
              LET last == ValueOf(last_net)
                  current == ValueOf(last_net')
                  rates == ValueOf(net_rates')
              IN  /\ Rat(rates.sent.n * KB, rates.sent.d) =
                        Rat((current.bytes_sent - last.bytes_sent) * TenthsPerSecond,
                            net_elapsed')
                  /\ Rat(rates.recv.n * KB, rates.recv.d) =
                        Rat((current.bytes_recv - last.bytes_recv) * TenthsPerSecond,
                            net_elapsed')
        /\ (component = "disk" /\ last_io # None /\ disk_rates' # None) =>
              LET last == ValueOf(last_io)
                  current == ValueOf(last_io')
                  rates == ValueOf(disk_rates')
              IN  /\ rates.read =
                        Rat((current.read_bytes - last.read_bytes) * TenthsPerSecond,
                            disk_elapsed')
                  /\ rates.write =
                        Rat((current.write_bytes - last.write_bytes) * TenthsPerSecond,
                            disk_elapsed')
      ]_vars

(***************************************************************************)
(* Claims about get_network_stats.                                         *)
(***************************************************************************)
\* The rows that are summed: those of interfaces other than lo, up to the
\* first such row that cannot be parsed (all of them when every row parses).
CountedRows ==
    LET lines == ValueOf(stats_call).lines
        Summed(i) == lines[i].kind = "row" /\ lines[i].iface # "lo"
    IN  { i \in DOMAIN lines :
            Summed(i) /\ \A j \in 1..i : Summed(j) => lines[j].parses }

RECURSIVE SumOfRows(_, _)
SumOfRows(rows, field) ==
    IF rows = {} THEN 0
    ELSE LET i == CHOOSE x \in rows : TRUE
         IN  ValueOf(stats_call).lines[i][field] + SumOfRows(rows \ {i}, field)

IsLatencyOf(lat, delta_time, delta_count) ==
    /\ lat.d > 0
    /\ IF delta_count > 0
       THEN lat.n * delta_count = delta_time * lat.d
       ELSE lat.n = 0

\* C20: across an update_data call that has a previous sample, the read and
\* the write latency are the time delta divided by the operation-count delta
\* when that count delta is positive and 0 when it is zero or negative; the
\* division is never by zero.
C20_LatencyIsTimePerOp ==
    [][ (component = "disk" /\ last_io # None /\ disk_rates' # None) =>
            LET last == ValueOf(last_io)
                current == ValueOf(last_io')
            IN  /\ IsLatencyOf(current_read_lat', current.read_time - last.read_time,
                               current.read_count - last.read_count)
                /\ IsLatencyOf(current_write_lat', current.write_time - last.write_time,
                               current.write_count - last.write_count)
      ]_vars

\* An update has found two reads completed in 5 ms, 2.5 ms per read, and
\* reports a write latency of 0.
C20_Witness ==
    /\ disk_rates # None
    /\ ValueOf(last_io).read_count = 2
    /\ ValueOf(last_io).write_time = 5
    /\ current_read_lat = Rat(5, 2)
    /\ current_write_lat = Zero

(***************************************************************************)
(* Claims about the configuration.                                         *)
(***************************************************************************)
\* C21: load_config does not raise; for a missing file it returns the
\* defaults (theme nord, refresh_rate 1.0) and the file exists afterwards;
\* for a file that cannot be parsed it returns the defaults.
C21_LoadConfigDefaults ==
    cfg_op = "load" =>
        /\ cfg_outcome # "raised"
        /\ cfg_outcome = "missing" =>
              (ValueOf(app_config).value = DefaultConfig /\ config_file # None)
        /\ cfg_outcome = "unparsable" => ValueOf(app_config).value = DefaultConfig

\* C22: a load_config that follows a save_config(c) which wrote the file
\* returns c's value for every key of every section of c, and the default
\* for every default key c lacks.
C22_SaveThenLoad ==
    (cfg_op = "load" /\ cfg_outcome # "raised" /\ last_saved # None) =>
        LET saved == ValueOf(last_saved)
            loaded == ValueOf(app_config).value
        IN  /\ \A section \in DOMAIN saved :
                  /\ section \in DOMAIN loaded
                  /\ \A key \in DOMAIN saved[section] :
                        /\ key \in DOMAIN loaded[section]
                        /\ loaded[section][key] = saved[section][key]
            /\ \A section \in DOMAIN DefaultConfig :
                  /\ section \in DOMAIN loaded
                  /\ \A key \in DOMAIN DefaultConfig[section] :
                        (section \notin DOMAIN saved \/ key \notin DOMAIN saved[section]) =>
                            /\ key \in DOMAIN loaded[section]
                            /\ loaded[section][key] = DefaultConfig[section][key]

\* C28: whatever is done to the dicts load_config returned, DEFAULT_CONFIG
\* keeps the values it was created with.
C28_DefaultsNotShared == DEFAULT_CONFIG = DefaultConfig

(***************************************************************************)
(* Claims about the freeze switch.                                         *)
(***************************************************************************)
\* C23: while the app is frozen the handler of no event -- timer tick, theme
\* cycle, focus change -- calls a panel's update_data; once it is unfrozen a
\* timer tick updates every panel.
C23_FrozenRunsNoUpdate ==
    /\ frozen => updated = {}
    /\ (~frozen /\ app_event = "tick") => updated = Panels

\* C27: one call of a bridge function invokes fallback_func at most once,
\* whatever the accelerator and the fallback do.
C27_FallbackAtMostOnce ==
    bridge_op \in BridgeOps => fallback_calls <= 1

\* C24: a get_process_list call served by the fallback hands back the
\* processes ordered by the sort_by and cut to the limit the caller asked
\* for.
C24_FallbackSortedAndLimited ==
    (bridge_op = "get_process_list" /\ bridge_out = "fallback") =>
        bridge_list = Some(ProcessList(ValueOf(bridge_request).listing,
                                       ValueOf(bridge_request).sort_by,
                                       ValueOf(bridge_request).limit))

\* C25: every row of the process panel shows a memory percentage within
\* [0, 100].
C25_ProcessMemPercentInRange ==
    last_procs # None =>
        \A i \in 1..Len(ValueOf(last_procs)) :
            /\ RatLeq(Zero, ValueOf(last_procs)[i].mem)
            /\ RatLeq(ValueOf(last_procs)[i].mem, Hundred)

\* C26: the figures of the immersive header are the uncapped rates of the
\* sample just taken.
C26_HeaderShowsUncappedRate ==
    [][ (net_header' # net_header /\ net_rates' # None /\ last_net # None) =>
            /\ ValueOf(net_header').up = ValueOf(net_rates').sent
            /\ ValueOf(net_header').down = ValueOf(net_rates').recv ]_vars

\* C29: a get_cpu_percents call that returns leaves _last_cpu_times and
\* _last_cpu_check at the snapshot and the time that call read, on every
\* branch; a call that raises while reading leaves both as they were.
C29_BaselineIsLastRead ==
    [][ /\ cpu_read' # None =>
              /\ last_cpu_times' = Some(ValueOf(cpu_read').current)
              /\ last_cpu_check' = ValueOf(cpu_read').now
        /\ cpu_path' = "raised" =>
              /\ cpu_read' = None
              /\ UNCHANGED <<last_cpu_times, last_cpu_check>> ]_vars

\* A call on the delta branch has replaced an earlier baseline by its own
\* snapshot and time.
C29_Witness ==
    /\ component = "cpu"
    /\ cpu_path = "delta"
    /\ cpu_read # None
    /\ last_cpu_times = Some(ValueOf(cpu_read).current)
    /\ last_cpu_check = ValueOf(cpu_read).now
    /\ last_cpu_check > 0

\* C30: on the immersive screen, after an even number of precision toggles
\* the panel's sampling_rate is the one it had when the screen was mounted,
\* and at every moment exactly one refresh timer runs, at the panel's
\* current sampling_rate.
C30_ToggleTwiceRestoresRate ==
    source_panel # None =>
        /\ toggles % 2 = 0 => sampling_rate[ValueOf(source_panel)] = rate_at_mount
        /\ refresh_timers = <<sampling_rate[ValueOf(source_panel)]>>

====================================================================
